---- MODULE Spec2Model ----
(***************************************************************************)
(* Graham scan of src/graham_scan.py as a state machine.                   *)
(*                                                                         *)
(* A point is a pair <<x, y>> of integers (a row of the numpy array).      *)
(* Arrays are sequences; the code's 0-based index k is position k + 1.     *)
(* One call of graham_scan runs extract_primary, sort_for_graham_scan and  *)
(* find_hull_vertices in order; the sweep is modelled one evaluation of    *)
(* its while condition at a time.  After a call has returned the caller    *)
(* may call graham_scan once more on the hull it got back.                 *)
(***************************************************************************)
EXTENDS Integers, Sequences, FiniteSets

\* Bounds of the explored inputs: up to MaxPts points of the grid
\* (0..MaxX) \X (0..MaxY).
MaxX == 2
MaxY == 1
MaxPts == 4

Point == (0..MaxX) \X (0..MaxY)

\* A second family of inputs: up to MaxRep points, repetitions allowed, of
\* four points around the origin (coordinates of either sign).
MaxRep == 8

SignedPoints == {<<0, -1>>, <<0, 1>>, <<-1, 1>>, <<1, 1>>}

VARIABLES
    points,            \* graham_scan's argument: the caller's array
    pc,                \* position of the call
    primary,           \* extract_primary's first result (<<>>: not bound)
    remaining_points,  \* extract_primary's second result
    sorted_points,     \* the working array find_hull_vertices mutates
    M,                 \* find_hull_vertices' cursor
    i,                 \* find_hull_vertices' loop index
    hull,              \* the value graham_scan returned
    err,               \* the exception that left graham_scan, or "none"
    call,              \* 1: the caller's first call, 2: the call on its hull
    prev               \* the hull the first call returned (call = 2)

vars == <<points, pc, primary, remaining_points, sorted_points, M, i, hull,
          err, call, prev>>

X(p) == p[1]
Y(p) == p[2]

(***************************************************************************)
(* Python indexing and slicing of an array of length Len(a).               *)
(***************************************************************************)
IndexOK(a, k) == -Len(a) <= k /\ k < Len(a)

At(a, k) == a[(IF k < 0 THEN k + Len(a) ELSE k) + 1]

\* a[lo:hi] for lo >= 0
Clamp(a, k) ==
    IF k < 0
    THEN (IF k + Len(a) < 0 THEN 0 ELSE k + Len(a))
    ELSE (IF k > Len(a) THEN Len(a) ELSE k)

Slice(a, lo, hi) ==
    IF Clamp(a, hi) <= Clamp(a, lo)
    THEN <<>>
    ELSE SubSeq(a, Clamp(a, lo) + 1, Clamp(a, hi))

swap(a, li, ri) ==
    [k \in 1..Len(a) |->
        IF k = (IF li < 0 THEN li + Len(a) ELSE li) + 1 THEN At(a, ri)
        ELSE IF k = (IF ri < 0 THEN ri + Len(a) ELSE ri) + 1 THEN At(a, li)
        ELSE a[k]]

(***************************************************************************)
(* ccw: 1, -1 or 0 by the cascade of lines 39-56.                          *)
(***************************************************************************)
ccw(p1, p2, p3) ==
    LET dx1 == X(p2) - X(p1)
        dy1 == Y(p2) - Y(p1)
        dx2 == X(p3) - X(p1)
        dy2 == Y(p3) - Y(p1)
        dx1dy2 == dx1 * dy2
        dy1dx2 == dy1 * dx2
    IN  IF dx1dy2 > dy1dx2 THEN 1
        ELSE IF dx1dy2 < dy1dx2 THEN -1
        ELSE IF dx1 * dx2 < 0 \/ dy1 * dy2 < 0 THEN -1
        ELSE IF dx1 * dx1 + dy1 * dy1 < dx2 * dx2 + dy2 * dy2 THEN 1
        ELSE 0

(***************************************************************************)
(* extract_primary: np.argmin over the flattened array.                    *)
(***************************************************************************)
Flatten(a) == [k \in 1..(2 * Len(a)) |-> a[(k + 1) \div 2][2 - (k % 2)]]

\* 0-based index of the first occurrence of the smallest entry
ArgMin(f) ==
    (CHOOSE k \in 1..Len(f) :
        /\ \A j \in 1..Len(f) : f[k] <= f[j]
        /\ \A j \in 1..(k - 1) : f[j] > f[k]) - 1

RemoveAt(a, idx) == SubSeq(a, 1, idx) \o SubSeq(a, idx + 2, Len(a))

(***************************************************************************)
(* sort_for_graham_scan: the key v[1] / v[0] is a float64.  A zero x gives *)
(* -inf, +inf or nan (numpy warns, it does not raise); argsort puts nan    *)
(* last.  SlopeClass: 0 = -inf, 1 = finite, 2 = +inf, 3 = nan.             *)
(***************************************************************************)
SlopeClass(v) ==
    IF X(v) # 0 THEN 1
    ELSE IF Y(v) > 0 THEN 2
    ELSE IF Y(v) < 0 THEN 0
    ELSE 3

SlopeLess(a, b) ==
    \/ SlopeClass(a) < SlopeClass(b)
    \/ /\ SlopeClass(a) = 1
       /\ SlopeClass(b) = 1
       /\ IF X(a) * X(b) > 0
          THEN Y(a) * X(b) < Y(b) * X(a)
          ELSE Y(a) * X(b) > Y(b) * X(a)

\* the entries of idxs whose key no other entry of idxs is below
MinSlope(a, idxs) == {k \in idxs : \A j \in idxs : ~SlopeLess(a[j], a[k])}

\* np.argsort (kind quicksort) fixes no order among equal keys: every
\* arrangement of a[idxs] in non-decreasing key order is an outcome.
RECURSIVE ArgSorted(_, _)
ArgSorted(a, idxs) ==
    IF idxs = {} THEN {<<>>}
    ELSE UNION {
            {<<p>> \o t :
                t \in ArgSorted(a, idxs \ {CHOOSE k \in MinSlope(a, idxs) : a[k] = p})}
            : p \in {a[k] : k \in MinSlope(a, idxs)}}

\* np.concatenate((sorted_points[-1:], [primary], sorted_points))
Assemble(s, p) == (IF Len(s) = 0 THEN <<>> ELSE <<s[Len(s)]>>) \o <<p>> \o s

(***************************************************************************)
(* Initial state: the caller holds an input and is about to call.          *)
(***************************************************************************)
Start ==
    /\ pc = "extract_primary"
    /\ primary = <<>>
    /\ remaining_points = <<>>
    /\ sorted_points = <<>>
    /\ M = 0
    /\ i = 0
    /\ hull = <<>>
    /\ err = "none"
    /\ call = 1
    /\ prev = <<>>

Init ==
    /\ \E n \in 0..MaxPts : points \in [1..n -> Point]
    /\ Start

InitSigned ==
    /\ \E n \in 0..MaxRep : points \in [1..n -> SignedPoints]
    /\ Start

Raise(e) ==
    /\ pc' = "raised"
    /\ err' = e

\* extract_primary without the failure of argmin on an empty array
ExtractPrimaryEmptyPasses ==
    /\ pc = "extract_primary"
    /\ IF Len(points) = 0
       THEN /\ primary' = <<0, 0>>
            /\ remaining_points' = <<>>
            /\ pc' = "sort_for_graham_scan"
            /\ err' = err
       ELSE IF ArgMin(Flatten(points)) >= Len(points)
       THEN /\ Raise("IndexError")
            /\ UNCHANGED <<primary, remaining_points>>
       ELSE /\ primary' = points[ArgMin(Flatten(points)) + 1]
            /\ remaining_points' = RemoveAt(points, ArgMin(Flatten(points)))
            /\ pc' = "sort_for_graham_scan"
            /\ err' = err
    /\ UNCHANGED <<points, sorted_points, M, i, hull, call, prev>>

\* line 125 -> lines 68-73
ExtractPrimary ==
    /\ pc = "extract_primary"
    /\ IF Len(points) = 0
       THEN /\ Raise("ValueError")
            /\ UNCHANGED <<primary, remaining_points>>
       ELSE IF ArgMin(Flatten(points)) >= Len(points)
       THEN /\ Raise("IndexError")
            /\ UNCHANGED <<primary, remaining_points>>
       ELSE /\ primary' = points[ArgMin(Flatten(points)) + 1]
            /\ remaining_points' = RemoveAt(points, ArgMin(Flatten(points)))
            /\ pc' = "sort_for_graham_scan"
            /\ err' = err
    /\ UNCHANGED <<points, sorted_points, M, i, hull, call, prev>>

\* line 126 -> lines 86-92
SortForGrahamScan ==
    /\ pc = "sort_for_graham_scan"
    /\ \E s \in ArgSorted(remaining_points, 1..Len(remaining_points)) :
          sorted_points' = Assemble(s, primary)
    /\ pc' = "find_hull_vertices"
    /\ UNCHANGED <<points, primary, remaining_points, M, i, hull, err, call, prev>>

\* line 127 -> lines 104-105
FindHullVertices ==
    /\ pc = "find_hull_vertices"
    /\ M' = 3
    /\ i' = 4
    /\ pc' = "for"
    /\ UNCHANGED <<points, primary, remaining_points, sorted_points, hull, err,
                   call, prev>>

\* line 106: the range still has an index
ForNext ==
    /\ pc = "for"
    /\ i < Len(sorted_points)
    /\ pc' = "while"
    /\ UNCHANGED <<points, primary, remaining_points, sorted_points, M, i, hull,
                   err, call, prev>>

\* line 106 exhausted, line 113, line 128
Return ==
    /\ pc = "for"
    /\ i >= Len(sorted_points)
    /\ hull' = Slice(sorted_points, 1, M + 1)
    /\ pc' = "done"
    /\ UNCHANGED <<points, primary, remaining_points, sorted_points, M, i, err,
                   call, prev>>

\* line 107: a subscript outside the array
WhileIndexError ==
    /\ pc = "while"
    /\ ~(IndexOK(sorted_points, M) /\ IndexOK(sorted_points, M - 1))
    /\ Raise("IndexError")
    /\ UNCHANGED <<points, primary, remaining_points, sorted_points, M, i, hull,
                   call, prev>>

\* lines 107-108: the condition holds, pop
WhilePop ==
    /\ pc = "while"
    /\ IndexOK(sorted_points, M) /\ IndexOK(sorted_points, M - 1)
    /\ ccw(At(sorted_points, M), At(sorted_points, M - 1), At(sorted_points, i)) >= 0
    /\ M' = M - 1
    /\ UNCHANGED <<points, pc, primary, remaining_points, sorted_points, i, hull,
                   err, call, prev>>

\* the sweep swapping in an array that shares its rows with the input
PlaceInInput ==
    /\ pc = "while"
    /\ IndexOK(sorted_points, M) /\ IndexOK(sorted_points, M - 1)
    /\ ccw(At(sorted_points, M), At(sorted_points, M - 1), At(sorted_points, i)) < 0
    /\ M' = M + 1
    /\ sorted_points' = swap(sorted_points, M + 1, i)
    /\ points' = Tail(swap(sorted_points, M + 1, i))
    /\ i' = i + 1
    /\ pc' = "for"
    /\ UNCHANGED <<primary, remaining_points, hull, err, call, prev>>

\* line 107 false, lines 110-111, next index
Place ==
    /\ pc = "while"
    /\ IndexOK(sorted_points, M) /\ IndexOK(sorted_points, M - 1)
    /\ ccw(At(sorted_points, M), At(sorted_points, M - 1), At(sorted_points, i)) < 0
    /\ M' = M + 1
    /\ sorted_points' = swap(sorted_points, M + 1, i)
    /\ i' = i + 1
    /\ pc' = "for"
    /\ UNCHANGED <<points, primary, remaining_points, hull, err, call, prev>>

\* the caller passes the hull it received to graham_scan
Rescan ==
    /\ pc = "done"
    /\ call = 1
    /\ points' = hull
    /\ prev' = hull
    /\ call' = 2
    /\ pc' = "extract_primary"
    /\ primary' = <<>>
    /\ remaining_points' = <<>>
    /\ sorted_points' = <<>>
    /\ M' = 0
    /\ i' = 0
    /\ hull' = <<>>
    /\ err' = err

Next ==
    \/ ExtractPrimary
    \/ SortForGrahamScan
    \/ FindHullVertices
    \/ ForNext
    \/ Return
    \/ WhileIndexError
    \/ WhilePop
    \/ Place
    \/ Rescan

Spec == Init /\ [][Next]_vars

SpecSigned == InitSigned /\ [][Next]_vars

(***************************************************************************)
(* Vocabulary of the properties.                                           *)
(***************************************************************************)
Returned == pc = "done"

Range(a) == {a[k] : k \in 1..Len(a)}

Count(a, p) == Cardinality({k \in 1..Len(a) : a[k] = p})

\* twice the signed area of the triangle a, b, c: > 0 iff counter-clockwise
Cross(a, b, c) ==
    (X(b) - X(a)) * (Y(c) - Y(a)) - (Y(b) - Y(a)) * (X(c) - X(a))

\* the element after position k of h, cyclically
Succ(h, k) == h[(k % Len(h)) + 1]

InBox(p, h) ==
    /\ \E q \in Range(h) : X(q) <= X(p)
    /\ \E q \in Range(h) : X(q) >= X(p)
    /\ \E q \in Range(h) : Y(q) <= Y(p)
    /\ \E q \in Range(h) : Y(q) >= Y(p)

\* every point of s is on the same side of (or on) every edge of the closed
\* polygon h, and within its bounding box: h is in convex position and the
\* polygon contains s
ConvexAround(h, s) ==
    /\ Len(h) > 0
    /\ \A p \in s : InBox(p, h)
    /\ \/ \A k \in 1..Len(h) : \A p \in s \cup Range(h) :
              Cross(h[k], Succ(h, k), p) >= 0
       \/ \A k \in 1..Len(h) : \A p \in s \cup Range(h) :
              Cross(h[k], Succ(h, k), p) <= 0

LexLeq(p, q) == X(p) < X(q) \/ (X(p) = X(q) /\ Y(p) <= Y(q))

LexMin(a) == CHOOSE p \in Range(a) : \A q \in Range(a) : LexLeq(p, q)

LexMax(a) == CHOOSE p \in Range(a) : \A q \in Range(a) : LexLeq(q, p)

\* the arrays sort_for_graham_scan can hand to the sweep
Assembled ==
    {Assemble(s, primary) : s \in ArgSorted(remaining_points, 1..Len(remaining_points))}

InSweep == pc \in {"for", "while"}

(***************************************************************************)
(* C1: a hull returned for at least three points is the vertex list of a   *)
(* convex polygon that contains every input point.                         *)
(***************************************************************************)
C1_HullContainsInput ==
    (Returned /\ Len(points) >= 3) => ConvexAround(hull, Range(points))

(***************************************************************************)
(* C2: for a non-empty input the first element of the returned hull is     *)
(* the lexicographically smallest (x, then y) input point.                 *)
(***************************************************************************)
C2_PivotFirst ==
    (Returned /\ Len(points) > 0) => (Len(hull) > 0 /\ hull[1] = LexMin(points))

(***************************************************************************)
(* C3: ccw reports no right-turn (1) on any three cyclically consecutive   *)
(* points a, b, c of a returned hull.                                      *)
(***************************************************************************)
C3_NoRightTurn ==
    (Returned /\ Len(hull) >= 3) =>
        \A k \in 1..Len(hull) :
            ccw(hull[k], Succ(hull, k), Succ(hull, k + 1)) # 1

(***************************************************************************)
(* C4: the returned hull is a sub-multiset of the input: no point occurs   *)
(* in it more often than in the input.                                     *)
(***************************************************************************)
C4_SubMultiset ==
    Returned => \A p \in Range(hull) : Count(hull, p) <= Count(points, p)

(***************************************************************************)
(* C5: a call on zero points never gets past extract_primary: it raises    *)
(* there, nothing is sorted or swept, and no hull is returned.             *)
(***************************************************************************)
C5_EmptyInputFails ==
    Len(points) = 0 =>
        /\ pc \in {"extract_primary", "raised"}
        /\ (pc = "raised" => err # "none")
        /\ sorted_points = <<>>
        /\ hull = <<>>

C5_Witness == Len(points) = 0 /\ pc = "raised" /\ err = "ValueError"

(***************************************************************************)
(* C6: when a remaining (non-pivot) point has x = 0 the call fails: no     *)
(* hull is returned that was computed from an infinite or undefined key.   *)
(***************************************************************************)
C6_ZeroXFails ==
    Returned => \A p \in Range(remaining_points) : X(p) # 0

(***************************************************************************)
(* C7: for three distinct collinear points the returned hull is exactly    *)
(* the two extreme points, the pivot first.                                *)
(***************************************************************************)
C7_CollinearMiddleDropped ==
    (/\ Returned
     /\ Len(points) = 3
     /\ Cardinality(Range(points)) = 3
     /\ Cross(points[1], points[2], points[3]) = 0)
        => hull = <<LexMin(points), LexMax(points)>>

(***************************************************************************)
(* C8: graham_scan on a hull it returned also returns, and returns that    *)
(* hull: same points, same order.                                          *)
(***************************************************************************)
C8_Idempotent ==
    call = 2 => (pc # "raised" /\ (Returned => hull = prev))

(***************************************************************************)
(* C9: no step of a call changes the caller's array: from the call to its  *)
(* return or failure the argument holds the same points in the same order. *)
(***************************************************************************)
C9_InputUnchanged == [][call' = call => points' = points]_vars

\* the sweep has swapped two different points of its working array, and the
\* call has returned
C9_Witness == Returned /\ Len(points) >= 4 /\ sorted_points \notin Assembled

(***************************************************************************)
(* C10: in the sweep the cursor never goes below 1 and every subscript     *)
(* read or swapped (M, M - 1, i) is within 0..N-1.                         *)
(***************************************************************************)
C10_CursorInRange ==
    /\ (InSweep => M >= 1)
    /\ pc = "while" =>
        /\ 0 <= M - 1
        /\ M < Len(sorted_points)
        /\ 4 <= i
        /\ i < Len(sorted_points)
====
